---- MODULE Spec2Model ----
(***************************************************************************)
(* AcoPath: the Ant System of src/antsystem.cpp as a state machine.        *)
(*                                                                         *)
(* edge2phero is the sequence of (edge, pheromone) pairs in the iteration  *)
(* order of the unordered_map, which is fixed while no edge is inserted.   *)
(* A double is a record [k, n]: k = "fin" for the finite value n over a    *)
(* denominator fixed by the context, "inf", "ninf" or "nan" for the IEEE   *)
(* specials. Finite arithmetic is exact (no rounding): pheromone levels    *)
(* are numerators over PheroDen, probabilities numerators over the         *)
(* absolute value of prob's denumerator.                                   *)
(***************************************************************************)
EXTENDS Integers, Sequences, FiniteSets, TLC

\* ------------------------------------------------------------- bounds
MaxNode == 2
MaxEdges == 3
MaxAnyEdges == 2
MaxAnts == 2
MaxIterations == 2
MaxRounds == 2

Nodes == 0..MaxNode
\* the lengths an input file gives its edges ("length" is read as an int)
Lengths == {-1, 0, 1, 2}
\* path() is called with start 0 and end 0 or 1: the files below hold every
\* labelling of their graphs, so each call is one of these up to the names
\* of the nodes
StartNodes == {0}
EndNodes == {0, 1}
\* what a read past the end of neighs can yield: any int; -1, the nodes and
\* one int that names no node stand for all of them
GarbageNode == MaxNode + 1
GarbageValues == Nodes \cup {-1, GarbageNode}

\* ------------------------------------------------------------- constants
ANTS == 250
ITERATIONS == 150
PHERO_QUANTITY == 100
A_PAR == 1
B_PAR == 5
\* EVAPO_RATE = 0.5 as the fraction <<numerator, denominator>>
EVAPO_RATE == <<1, 2>>
\* std::numeric_limits<double>::max(), here the largest integer of TLC
DBL_MAX == 2147483647

\* ------------------------------------------------------------- integers
Abs(x) == IF x < 0 THEN -x ELSE x

Sgn(x) == IF x < 0 THEN -1 ELSE IF x = 0 THEN 0 ELSE 1

RECURSIVE Gcd(_, _)
Gcd(a, b) == IF b = 0 THEN a ELSE Gcd(b, a % b)

RECURSIVE LcmUpTo(_)
LcmUpTo(n) == IF n <= 1 THEN 1 ELSE LET l == LcmUpTo(n - 1) IN (l * n) \div Gcd(l, n)

RECURSIVE IntPow(_, _)
IntPow(b, e) == IF e = 0 THEN 1 ELSE b * IntPow(b, e - 1)

Range(s) == {s[k] : k \in 1..Len(s)}

MaxAbsLength == CHOOSE m \in {Abs(l) : l \in Lengths} : \A l \in Lengths : Abs(l) <= m

\* a tour has at most MaxNode + 1 edges, each of weight at most MaxAbsLength
LenLcm == LcmUpTo(MaxAbsLength * (MaxNode + 1))

\* the denominator of every finite pheromone level: tour lengths divide it
\* and MaxRounds evaporations leave it exact
PheroDen == LenLcm * IntPow(EVAPO_RATE[2], MaxRounds)

\* the common multiple that clears 1 / weight ^ B_PAR
HeuDen == IntPow(LcmUpTo(MaxAbsLength), B_PAR)

\* ------------------------------------------------------------- doubles
Fin(n) == [k |-> "fin", n |-> n]
PInf == [k |-> "inf", n |-> 0]
NInf == [k |-> "ninf", n |-> 0]
NaN == [k |-> "nan", n |-> 0]

\* the sign of a double that is not a NaN
DSign(a) == IF a.k = "inf" THEN 1 ELSE IF a.k = "ninf" THEN -1 ELSE Sgn(a.n)

\* a + b
DAdd(a, b) ==
    IF a.k = "nan" \/ b.k = "nan" THEN NaN
    ELSE IF a.k = "fin" /\ b.k = "fin" THEN Fin(a.n + b.n)
    ELSE IF a.k = "fin" THEN b
    ELSE IF b.k = "fin" THEN a
    ELSE IF a.k = b.k THEN a
    ELSE NaN

\* a * b (the product of the numerators when both are finite)
DMul(a, b) ==
    IF a.k = "nan" \/ b.k = "nan" THEN NaN
    ELSE IF a.k = "fin" /\ b.k = "fin" THEN Fin(a.n * b.n)
    ELSE IF DSign(a) * DSign(b) = 0 THEN NaN
    ELSE IF DSign(a) * DSign(b) > 0 THEN PInf
    ELSE NInf

\* a / b for a and b over the same denominator; a finite quotient is a
\* numerator over Abs(b.n). A zero denumerator here is +0.0: it is a sum
\* that starts from +0.0
DDiv(a, b) ==
    IF a.k = "nan" \/ b.k = "nan" THEN NaN
    ELSE IF a.k = "fin" /\ b.k = "fin"
         THEN IF b.n # 0 THEN Fin(a.n * Sgn(b.n))
              ELSE IF a.n > 0 THEN PInf
              ELSE IF a.n < 0 THEN NInf
              ELSE NaN
    ELSE IF a.k = "fin" THEN Fin(0)
    ELSE IF b.k = "fin"
         THEN IF DSign(a) * (IF b.n < 0 THEN -1 ELSE 1) > 0 THEN PInf ELSE NInf
    ELSE NaN

\* std::pow(a, e) for a double a and a whole exponent e >= 1
RECURSIVE DPow(_, _)
DPow(a, e) == IF e = 1 THEN a ELSE DMul(a, DPow(a, e - 1))

\* a >= 0, as the claims about pheromone levels read it
DNonNeg(a) == a.k = "inf" \/ (a.k = "fin" /\ a.n >= 0)
\* ------------------------------------------------------------- state
VARIABLES
    file,        \* the edges of the topology file, in the order initTopo meets them
    edge2phero,  \* AntSystem::edge2phero, in iteration order
    ants,        \* AntSystem::ants
    iterations,  \* AntSystem::iterations
    pc,          \* "new", "idle", or the position inside path()
    start,       \* path()'s start
    end,         \* path()'s end
    bestPath,    \* path()'s bestPath
    shortest,    \* path()'s shortest
    i,           \* path()'s round counter
    j,           \* path()'s ant counter
    antTraces,   \* path()'s antTraces
    tourLengths, \* path()'s tourLengths
    node,        \* goAnt()'s start: the node the running invocation stands on
    trace,       \* goAnt()'s trace, path()'s antTrace
    result,      \* what the last path() returned
    rounds,      \* updateTrails runs since the pheromone table was last built
    walkLog,     \* history: the successful walks of this path() call, in order
    walks,       \* history: the walks of this path() call
    updates,     \* history: the updateTrails runs of this path() call
    instance,    \* 1, or 2 for a second instance built like the first
    calls,       \* history: the path() calls this instance has returned from
    firstResults \* history: start, end and result of the first instance's calls

vars == <<file, edge2phero, ants, iterations, pc, start, end, bestPath, shortest,
          i, j, antTraces, tourLengths, node, trace, result, rounds, walkLog,
          walks, updates, instance, calls, firstResults>>

twinVars == <<instance, calls, firstResults>>

\* ------------------------------------------------------------- topology
FileEntries == [src : Nodes, dest : Nodes, length : Lengths]

EntryKey(en) == (en.src * (MaxNode + 1) + en.dest) * (2 * MaxAbsLength + 1)
                    + en.length + MaxAbsLength

\* the files of at most n edges out of E, listed in ascending order
RECURSIVE SortedFiles(_, _)
SortedFiles(E, n) ==
    IF n = 0 THEN {<<>>}
    ELSE LET shorter == SortedFiles(E, n - 1)
         IN shorter \cup
            UNION {{Append(f, en) :
                       en \in {x \in E : n = 1 \/ EntryKey(x) > EntryKey(f[n - 1])}} :
                   f \in {g \in shorter : Len(g) = n - 1}}

\* the topology files: at most MaxAnyEdges edges of any length, or at most
\* MaxEdges edges of positive length
Files ==
    SortedFiles(FileEntries, MaxAnyEdges)
        \cup SortedFiles({en \in FileEntries : en.length > 0}, MaxEdges)

\* the pheromone level PHERO_QUANTITY
InitialPheromone == Fin(PHERO_QUANTITY * PheroDen)

\* initTopo: every edge of the file enters edge2phero with the next id and
\* the initial pheromone, whatever its length
RECURSIVE initTopo(_)
initTopo(f) ==
    IF Len(f) = 0 THEN <<>>
    ELSE LET n == Len(f)
             en == f[n]
             edge == [edgeStart |-> en.src, edgeEnd |-> en.dest,
                      weight |-> en.length, id |-> n]
         IN Append(initTopo(SubSeq(f, 1, n - 1)),
                   [first |-> edge, second |-> InitialPheromone])

\* std::find_if over edge2phero for the pair: the first match, 0 for cend()
FindEdge(edgeStart, edgeEnd) ==
    LET hits == {k \in 1..Len(edge2phero) :
                    /\ edge2phero[k].first.edgeStart = edgeStart
                    /\ edge2phero[k].first.edgeEnd = edgeEnd}
    IN IF hits = {} THEN 0 ELSE CHOOSE k \in hits : \A h \in hits : k <= h

\* 1 / weight as a numerator over LcmUpTo(MaxAbsLength); 1 / 0.0 is +inf
heuInfo(edgeStart, edgeEnd) ==
    LET k == FindEdge(edgeStart, edgeEnd)
    IN IF k = 0 THEN Fin(0)
       ELSE IF edge2phero[k].first.weight = 0 THEN PInf
       ELSE Fin(LcmUpTo(MaxAbsLength) \div edge2phero[k].first.weight)

pheromone(edgeStart, edgeEnd) ==
    LET k == FindEdge(edgeStart, edgeEnd)
    IN IF k = 0 THEN Fin(0) ELSE edge2phero[k].second

RECURSIVE NeighboursFrom(_, _)
NeighboursFrom(n, k) ==
    IF k > Len(edge2phero) THEN <<>>
    ELSE IF edge2phero[k].first.edgeStart = n
         THEN <<edge2phero[k].first.edgeEnd>> \o NeighboursFrom(n, k + 1)
         ELSE NeighboursFrom(n, k + 1)

availNeighbours(n) == NeighboursFrom(n, 1)

\* pow(pheromone, A_PAR) * pow(heuInfo, B_PAR), over PheroDen^A_PAR * HeuDen
TransitionWeight(edgeStart, edgeEnd) ==
    DMul(DPow(pheromone(edgeStart, edgeEnd), A_PAR),
         DPow(heuInfo(edgeStart, edgeEnd), B_PAR))

RECURSIVE SumWeights(_, _, _)
SumWeights(edgeStart, neighs, k) ==
    IF k = 0 THEN Fin(0)
    ELSE DAdd(SumWeights(edgeStart, neighs, k - 1),
              TransitionWeight(edgeStart, neighs[k]))

\* prob()'s denumerator
Denumerator(edgeStart) ==
    LET neighs == availNeighbours(edgeStart)
    IN SumWeights(edgeStart, neighs, Len(neighs))

prob(edgeStart, edgeEnd) ==
    DDiv(TransitionWeight(edgeStart, edgeEnd), Denumerator(edgeStart))

\* the denominator of the finite probabilities out of a node
ProbDen(n) ==
    LET d == Denumerator(n)
    IN IF d.k = "fin" /\ d.n # 0 THEN Abs(d.n) ELSE 1

\* the check looks at the trace without the node the ant has just reached
isCyclicBeforeNode(nodes) ==
    Len(nodes) - 1 # Cardinality(Range(SubSeq(nodes, 1, Len(nodes) - 1)))

isCyclic(nodes) == Len(nodes) # Cardinality(Range(nodes))

\* goAnt's running sum after index k (1-based) of the neighbour list
RECURSIVE CumulativeProb(_, _, _)
CumulativeProb(n, neighs, k) ==
    IF k = 0 THEN Fin(0)
    ELSE DAdd(CumulativeProb(n, neighs, k - 1), prob(n, neighs[k]))

\* value <= sum, for a value that is a numerator over 2 * ProbDen
ValueLE(value, sum) == sum.k = "inf" \/ (sum.k = "fin" /\ value <= 2 * sum.n)

\* the draws of distro(gen): one value of [0, 1) for each outcome of the
\* selection loop (0, every running sum inside [0, 1), and a value between
\* each of them and 1)
Values(n) ==
    LET neighs == availNeighbours(n)
        sums == {CumulativeProb(n, neighs, k) : k \in 1..Len(neighs)}
        inside == {s.n : s \in {t \in sums : t.k = "fin" /\ t.n >= 0 /\ t.n < ProbDen(n)}}
    IN {0} \cup {2 * m : m \in inside} \cup {m + ProbDen(n) : m \in inside}

\* the index the selection loop stops at, Len(neighs) + 1 when it never breaks
ChosenIndex(n, value) ==
    LET neighs == availNeighbours(n)
        stops == {k \in 1..Len(neighs) : ValueLE(value, CumulativeProb(n, neighs, k))}
    IN IF stops = {} THEN Len(neighs) + 1
       ELSE CHOOSE k \in stops : \A h \in stops : k <= h

\* what neighs[index] can read: the neighbour at the index, or, past the
\* end of neighs, whatever lies there
NeighbourReads(n, value) ==
    LET neighs == availNeighbours(n)
        index == ChosenIndex(n, value)
    IN IF Len(neighs) = 0 THEN {-1}
       ELSE IF index <= Len(neighs) THEN {neighs[index]}
       ELSE GarbageValues

\* chosenNeighbour, for what neighs[index] read
chosenNeighbour(n, read) == IF Len(availNeighbours(n)) > 0 THEN read ELSE -1

\* calcTourLength: a pair that is no edge adds nothing
RECURSIVE WeightSum(_, _)
WeightSum(tour, k) ==
    IF k = 0 THEN 0
    ELSE LET e == FindEdge(tour[k], tour[k + 1])
         IN WeightSum(tour, k - 1) + (IF e # 0 THEN edge2phero[e].first.weight ELSE 0)

calcTourLength(tour) == IF Len(tour) <= 1 THEN 0 ELSE WeightSum(tour, Len(tour) - 1)

\* PHERO_QUANTITY / length, over PheroDen; a length of 0 is +0.0
diffPheromone(length) ==
    IF length = 0 THEN PInf ELSE Fin((PHERO_QUANTITY * PheroDen) \div length)

\* the level is left as it is
EvaporateNothing(p) == p

\* second *= (1 - EVAPO_RATE)
Evaporate(p) ==
    IF p.k = "fin" THEN Fin((p.n * (EVAPO_RATE[2] - EVAPO_RATE[1])) \div EVAPO_RATE[2])
    ELSE p

\* the inner for loop of updateTrails over the positions 1..k of one trace
RECURSIVE ReinforceTrace(_, _, _, _, _)
ReinforceTrace(p, edge, tr, length, k) ==
    IF k = 0 THEN p
    ELSE LET q == ReinforceTrace(p, edge, tr, length, k - 1)
         IN IF tr[k] = edge.edgeStart /\ tr[k + 1] = edge.edgeEnd
            THEN DAdd(q, diffPheromone(length))
            ELSE q

\* the while loop of updateTrails over the ants 1..a, in key order
RECURSIVE ReinforceEdge(_, _, _, _, _)
ReinforceEdge(p, edge, traces, lengths, a) ==
    IF a = 0 THEN p
    ELSE LET q == ReinforceEdge(p, edge, traces, lengths, a - 1)
         IN IF Len(traces[a]) <= 1 THEN q
            ELSE ReinforceTrace(q, edge, traces[a], lengths[a], Len(traces[a]) - 1)

\* updateTrails: the first loop evaporates every edge, the second reinforces
\* every edge from the traces
updateTrails(traces, lengths) ==
    LET evaporated == [k \in 1..Len(edge2phero) |->
                          [first |-> edge2phero[k].first,
                           second |-> Evaporate(edge2phero[k].second)]]
    IN [k \in 1..Len(edge2phero) |->
           [first |-> evaporated[k].first,
            second |-> ReinforceEdge(evaporated[k].second, evaporated[k].first,
                                     traces, lengths, Len(traces))]]

\* ------------------------------------------------------------- operations
Init ==
    /\ file \in Files
    /\ edge2phero = <<>>
    /\ ants = 0
    /\ iterations = 0
    /\ pc = "new"
    /\ start = 0
    /\ end = 0
    /\ bestPath = <<>>
    /\ shortest = DBL_MAX
    /\ i = 0
    /\ j = 0
    /\ antTraces = <<>>
    /\ tourLengths = <<>>
    /\ node = 0
    /\ trace = <<>>
    /\ result = <<>>
    /\ rounds = 0
    /\ walkLog = <<>>
    /\ walks = 0
    /\ updates = 0
    /\ instance = 1
    /\ calls = 0
    /\ firstResults = <<>>

\* AntSystem(filename, ants, iterations)
Construct(a, it) ==
    /\ pc = "new"
    /\ edge2phero' = initTopo(file)
    /\ IF a > 0 /\ it > 0
       THEN ants' = a /\ iterations' = it
       ELSE ants' = ANTS /\ iterations' = ITERATIONS
    /\ pc' = "idle"
    /\ UNCHANGED <<file, start, end, bestPath, shortest, i, j, antTraces,
                   tourLengths, node, trace, result, rounds, walkLog, walks, updates,
                   twinVars>>

\* clear()
Clear ==
    /\ pc = "idle"
    /\ edge2phero # <<>>
    /\ edge2phero' = <<>>
    /\ rounds' = 0
    /\ result' = <<>>
    /\ walkLog' = <<>>
    /\ walks' = 0
    /\ updates' = 0
    /\ UNCHANGED <<file, ants, iterations, pc, start, end, bestPath, shortest, i, j,
                   antTraces, tourLengths, node, trace, twinVars>>

\* path(s, e) up to the first goAnt call of the first round
PathBegin(s, e) ==
    /\ pc = "idle"
    /\ rounds + iterations <= MaxRounds
    /\ start' = s
    /\ end' = e
    /\ bestPath' = <<>>
    /\ shortest' = DBL_MAX
    /\ i' = 0
    /\ j' = 1
    /\ antTraces' = <<>>
    /\ tourLengths' = <<>>
    /\ node' = s
    /\ trace' = <<>>
    /\ walkLog' = <<>>
    /\ walks' = 0
    /\ updates' = 0
    /\ pc' = "goAnt"
    /\ UNCHANGED <<file, edge2phero, ants, iterations, result, rounds, twinVars>>

\* one invocation of goAnt(node, end, trace); the invocations above it do
\* nothing after it returns
GoAnt(value, read) ==
    /\ pc = "goAnt"
    /\ value \in Values(node)
    /\ read \in NeighbourReads(node, value)
    /\ IF isCyclic(Append(trace, node))
       THEN trace' = <<>> /\ pc' = "antDone" /\ node' = node
       ELSE IF node = end /\ Len(trace) > 0
       THEN trace' = Append(trace, node) /\ pc' = "antDone" /\ node' = node
       ELSE IF chosenNeighbour(node, read) = -1
       THEN trace' = <<>> /\ pc' = "antDone" /\ node' = node
       ELSE /\ trace' = Append(trace, node)
            /\ node' = chosenNeighbour(node, read)
            /\ pc' = "goAnt"
    /\ UNCHANGED <<file, edge2phero, ants, iterations, start, end, bestPath, shortest,
                   i, j, antTraces, tourLengths, result, rounds, walkLog, walks, updates,
                   twinVars>>

\* a tour as long as the best so far takes its place
IsNewBestOrTie(length, best) == length > 0 /\ length <= best

\* a tour of length 0 or less can become the best
IsNewBestAnySign(length, best) == length < best

\* the test that makes a tour the best so far
IsNewBest(length, best) == length > 0 /\ length < best

\* the inner loop stops one ant early
MoreAntsButLast(k) == k < ants

\* the condition of path()'s inner loop
MoreAnts(k) == k <= ants

\* the body of path()'s inner loop after goAnt returned, and ++j
AntDone ==
    /\ pc = "antDone"
    /\ IF Len(trace) > 1 /\ trace[1] = start /\ trace[Len(trace)] = end
       THEN /\ antTraces' = Append(antTraces, trace)
            /\ tourLengths' = Append(tourLengths, calcTourLength(trace))
            /\ IF IsNewBest(calcTourLength(trace), shortest)
               THEN shortest' = calcTourLength(trace) /\ bestPath' = trace
               ELSE UNCHANGED <<shortest, bestPath>>
            /\ walkLog' = Append(walkLog, [trace |-> trace,
                                           length |-> calcTourLength(trace)])
       ELSE /\ antTraces' = Append(antTraces, <<>>)
            /\ tourLengths' = Append(tourLengths, 0)
            /\ UNCHANGED <<shortest, bestPath, walkLog>>
    /\ walks' = walks + 1
    /\ j' = j + 1
    /\ node' = start
    /\ trace' = <<>>
    /\ pc' = IF MoreAnts(j + 1) THEN "goAnt" ELSE "updateTrails"
    /\ UNCHANGED <<file, edge2phero, ants, iterations, start, end, i, result,
                   rounds, updates, twinVars>>

\* updateTrails(antTraces, tourLengths), ++i, and the next round or the return
UpdateTrailsStep ==
    /\ pc = "updateTrails"
    /\ edge2phero' = updateTrails(antTraces, tourLengths)
    /\ rounds' = rounds + 1
    /\ updates' = updates + 1
    /\ antTraces' = <<>>
    /\ tourLengths' = <<>>
    /\ IF i + 1 < iterations
       THEN /\ i' = i + 1
            /\ j' = 1
            /\ node' = start
            /\ trace' = <<>>
            /\ pc' = "goAnt"
            /\ UNCHANGED result
       ELSE /\ i' = 0
            /\ j' = 0
            /\ node' = 0
            /\ trace' = <<>>
            /\ result' = bestPath
            /\ pc' = "idle"
    /\ UNCHANGED <<file, ants, iterations, start, end, bestPath, shortest, walkLog, walks>>

UpdateTrails == UpdateTrailsStep /\ UNCHANGED twinVars

Next ==
    \/ \E a \in 1..MaxAnts, it \in 1..MaxIterations : Construct(a, it)
    \/ Clear
    \/ \E s \in StartNodes, e \in EndNodes : PathBegin(s, e)
    \/ \E value \in Values(node) : \E read \in NeighbourReads(node, value) :
           GoAnt(value, read)
    \/ AntDone
    \/ UpdateTrails

Spec == Init /\ [][Next]_vars

\* ------------------------------------------------------------- two instances
\* a second AntSystem built from the same file with the same ants and
\* iterations, once the first has returned from its calls
SecondInstance ==
    /\ pc = "idle"
    /\ instance = 1
    /\ calls > 0
    /\ instance' = 2
    /\ calls' = 0
    /\ edge2phero' = initTopo(file)
    /\ rounds' = 0
    /\ result' = <<>>
    /\ walkLog' = <<>>
    /\ walks' = 0
    /\ updates' = 0
    /\ UNCHANGED <<file, ants, iterations, pc, start, end, bestPath, shortest, i, j,
                   antTraces, tourLengths, node, trace, firstResults>>

\* the second instance is given the calls of the first, in their order
TwinPathBegin(s, e) ==
    /\ instance = 2 =>
          /\ calls < Len(firstResults)
          /\ s = firstResults[calls + 1].start
          /\ e = firstResults[calls + 1].end
    /\ PathBegin(s, e)

TwinUpdateTrails ==
    /\ UpdateTrailsStep
    /\ instance' = instance
    /\ IF pc' = "idle"
       THEN /\ calls' = calls + 1
            /\ firstResults' =
                  IF instance = 1
                  THEN Append(firstResults,
                              [start |-> start, end |-> end, result |-> result'])
                  ELSE firstResults
       ELSE UNCHANGED <<calls, firstResults>>

TwinInit ==
    /\ Init
    /\ Len(file) <= MaxAnyEdges
    /\ \A k \in 1..Len(file) : file[k].length > 0

TwinNext ==
    \/ \E a \in 1..MaxAnts, it \in 1..MaxIterations : Construct(a, it)
    \/ \E s \in StartNodes, e \in EndNodes : TwinPathBegin(s, e)
    \/ \E value \in Values(node) : \E read \in NeighbourReads(node, value) :
           GoAnt(value, read)
    \/ AntDone
    \/ TwinUpdateTrails
    \/ SecondInstance

TwinSpec == TwinInit /\ [][TwinNext]_vars
\* ------------------------------------------------------------- claims
InCall == pc \in {"goAnt", "antDone", "updateTrails"}

\* path() has returned and nothing has touched the instance since
Returned == pc = "idle" /\ walks > 0

NoRepeat(t) == Cardinality(Range(t)) = Len(t)

SimplePath(t, s, e) == Len(t) > 0 /\ NoRepeat(t) /\ t[1] = s /\ t[Len(t)] = e

\* C1: the trace one ant walk leaves is empty or a sequence without a
\* repeated node from start to end, and so is the path that path() returns
C1_TraceIsSimplePath ==
    /\ pc = "antDone" => (trace = <<>> \/ SimplePath(trace, start, end))
    /\ Returned => (result = <<>> \/ SimplePath(result, start, end))

\* a walk over every node has ended in success
C1_Witness == pc = "antDone" /\ Len(trace) = MaxNode + 1 /\ trace[Len(trace)] = end

\* the walks of the log with a tour length above 0
PositiveWalks(log) == {k \in 1..Len(log) : log[k].length > 0}

\* the trace of the earliest walk of the log whose length is the least above 0
EarliestShortest(log) ==
    IF PositiveWalks(log) = {} THEN <<>>
    ELSE LET k == CHOOSE c \in PositiveWalks(log) :
                      \A h \in PositiveWalks(log) :
                          \/ log[c].length < log[h].length
                          \/ log[c].length = log[h].length /\ c <= h
         IN log[k].trace

IsEdge(a, b) == FindEdge(a, b) # 0

\* the sequences of nodes a route can be
NodeSeqs == UNION {[1..n -> Nodes] : n \in 2..(MaxNode + 1)}

\* the edges of the table are those of the route r from start to end, each once
IsOnlyRoute(r) ==
    /\ SimplePath(r, start, end)
    /\ Len(edge2phero) = Len(r) - 1
    /\ \A k \in 1..(Len(r) - 1) : IsEdge(r[k], r[k + 1])

RECURSIVE SumOfWeights(_)
SumOfWeights(k) ==
    IF k = 0 THEN 0 ELSE SumOfWeights(k - 1) + edge2phero[k].first.weight

\* C3: on a graph whose only edges form one route from start to end, path()
\* returns that route, and the best length is the sum of its weights
C3_SingleRouteIsReturned ==
    Returned =>
        \A r \in NodeSeqs :
            IsOnlyRoute(r) =>
                result = r /\ shortest = SumOfWeights(Len(edge2phero))

\* C3 on the graphs whose lengths are all positive
C3_PositiveSingleRouteIsReturned ==
    (\A k \in 1..Len(edge2phero) : edge2phero[k].first.weight > 0)
        => C3_SingleRouteIsReturned

C3_PositiveWitness ==
    /\ Returned
    /\ \E r \in NodeSeqs : IsOnlyRoute(r) /\ Len(r) = MaxNode + 1
    /\ \A k \in 1..Len(edge2phero) : edge2phero[k].first.weight > 0

Successors(S) ==
    {edge2phero[k].first.edgeEnd :
        k \in {h \in 1..Len(edge2phero) : edge2phero[h].first.edgeStart \in S}}

RECURSIVE Closure(_, _)
Closure(S, k) == IF k = 0 THEN S ELSE Closure(S \cup Successors(S), k - 1)

\* e is reached from s along one directed edge or more
Reachable(s, e) == e \in Closure(Successors({s}), MaxNode + 1)

\* C4: when end is not reachable from start, path() returns the empty
\* sequence, after all its iterations
C4_UnreachableGivesEmpty ==
    (Returned /\ ~Reachable(start, end)) => (result = <<>> /\ updates = iterations)

\* C4 on the graphs whose lengths are all positive
C4_PositiveUnreachableGivesEmpty ==
    (\A k \in 1..Len(edge2phero) : edge2phero[k].first.weight > 0)
        => C4_UnreachableGivesEmpty

\* C5: every edge of the table has a weight above 0
C5_WeightsArePositive ==
    \A k \in 1..Len(edge2phero) : edge2phero[k].first.weight > 0

\* C6: the pheromone level of every edge is 0 or more
C6_PheromoneNonNegative ==
    \A k \in 1..Len(edge2phero) : DNonNeg(edge2phero[k].second)

\* C6 on the graphs whose lengths are all positive
C6_PositivePheromoneNonNegative ==
    (\A k \in 1..Len(edge2phero) : edge2phero[k].first.weight > 0)
        => C6_PheromoneNonNegative

\* C7: a second instance built like the first and given the same calls
\* returns the same path from each call
C7_SameCallsSamePaths ==
    (instance = 2 /\ pc = "idle" /\ calls > 0) => result = firstResults[calls].result

Act8 ==
    /\ pc \in {"goAnt", "antDone"} => edge2phero' = edge2phero
    /\ pc = "updateTrails" =>
          /\ Len(antTraces) = ants
          /\ Len(tourLengths) = ants
          /\ walks = (i + 1) * ants
          /\ updates' = updates + 1
    /\ pc # "updateTrails" => updates' = updates \/ pc = "idle"
    /\ InCall' => updates' = i'
    /\ (InCall /\ pc' = "idle") => updates' = iterations

\* C8: the walks of a round leave the table as the last update left it, the
\* update runs once a round, after the last walk of the round and with the
\* traces and lengths of all its ants, and iterations times in a path() call
C8_OneUpdatePerRound == [][Act8]_vars

\* the update of a second round is about to run on the traces of two ants
C8_Witness ==
    /\ pc = "updateTrails"
    /\ i >= 1
    /\ ants >= 2
    /\ edge2phero # <<>>
    /\ \E a \in 1..Len(antTraces) : Len(antTraces[a]) > 1

\* the positions of the trace where a is followed by b
Uses(tr, a, b) == Cardinality({q \in 1..(Len(tr) - 1) : tr[q] = a /\ tr[q + 1] = b})

\* the ants whose trace has more than one node and passes a then b
Depositing(a, b) ==
    {n \in 1..Len(antTraces) : Len(antTraces[n]) > 1 /\ Uses(antTraces[n], a, b) > 0}

\* the sum over the ants 1..n of pheromoneQuantity / tourLength for every
\* passage over (a, b), as a numerator over PheroDen
RECURSIVE Deposit(_, _, _)
Deposit(a, b, n) ==
    IF n = 0 THEN 0
    ELSE Deposit(a, b, n - 1) +
         (IF n \in Depositing(a, b) /\ calcTourLength(antTraces[n]) # 0
          THEN Uses(antTraces[n], a, b) *
               ((PHERO_QUANTITY * PheroDen) \div calcTourLength(antTraces[n]))
          ELSE 0)

\* previous * (1 - evaporationRate) + the deposits; a tour of length 0
\* deposits +infinity
ClaimedLevel(k) ==
    LET a == edge2phero[k].first.edgeStart
        b == edge2phero[k].first.edgeEnd
        previous == edge2phero[k].second
    IN IF previous.k = "inf" \/ \E n \in Depositing(a, b) : calcTourLength(antTraces[n]) = 0
       THEN PInf
       ELSE Fin((previous.n * (EVAPO_RATE[2] - EVAPO_RATE[1])) \div EVAPO_RATE[2]
                + Deposit(a, b, Len(antTraces)))

\* C9: one update sets every edge to its previous level times
\* (1 - evaporationRate) plus the sum of pheromoneQuantity / tourLength over
\* the passages of the round's traces over the edge
C9_UpdateIsEvaporationPlusDeposits ==
    [][pc = "updateTrails" =>
          /\ Len(edge2phero') = Len(edge2phero)
          /\ \A k \in 1..Len(edge2phero) :
                /\ edge2phero'[k].first = edge2phero[k].first
                /\ edge2phero'[k].second = ClaimedLevel(k)]_vars

\* a second update is about to run on two traces over the same three nodes
C9_Witness ==
    /\ pc = "updateTrails"
    /\ updates >= 1
    /\ Len(antTraces) = 2
    /\ Len(antTraces[1]) = 3
    /\ antTraces[2] = antTraces[1]
    /\ calcTourLength(antTraces[1]) > 1

\* C10: every step of a walk goes to a neighbour of the node it leaves, a
\* walk visits at most as many nodes as the graph has, and path() ends
\* after iterations * ants walks
C10_WalkFollowsEdgesAndEnds ==
    /\ pc = "goAnt" =>
          \A k \in 1..Len(trace) :
              IsEdge(trace[k], IF k < Len(trace) THEN trace[k + 1] ELSE node)
    /\ InCall => Len(trace) <= MaxNode + 1
    /\ Returned => walks = iterations * ants

\* C10 without the steps: the bound of a walk and the number of walks
C10_WalkBoundedAndCounted ==
    /\ InCall => Len(trace) <= MaxNode + 1
    /\ Returned => walks = iterations * ants

\* C10: an invocation of goAnt either ends the walk or adds one node to the
\* trace, so that with the bound above a walk ends within MaxNode + 2 steps
C10_WalkAdvances ==
    [][pc = "goAnt" =>
          \/ pc' = "antDone"
          \/ pc' = "goAnt" /\ Len(trace') = Len(trace) + 1]_vars

\* the finite pheromone levels are exact: no evaporation and no deposit of
\* the rounds within MaxRounds rounds a numerator
ArithmeticIsExact ==
    /\ rounds <= MaxRounds
    /\ \A k \in 1..Len(edge2phero) :
          edge2phero[k].second.k = "fin" =>
              edge2phero[k].second.n % IntPow(EVAPO_RATE[2], MaxRounds - rounds) = 0
    /\ \A n \in 1..Len(tourLengths) :
          tourLengths[n] # 0 => (PHERO_QUANTITY * PheroDen) % Abs(tourLengths[n]) = 0
====
